---- MODULE Spec2Model ----
(***************************************************************************)
(* Asterian multiplayer relay (src/server.js): the session registry, the   *)
(* per-connection message handler, the close/error handlers and the        *)
(* heartbeat timer, as one state machine.  One action per event-loop       *)
(* callback; every callback runs to completion (single-threaded Node.js).  *)
(***************************************************************************)
EXTENDS Integers, Sequences, FiniteSets, TLC

(***************************************************************************)
(* Program constants.  server.js sets MAX_PLAYERS to 20; the model keeps   *)
(* the comparison of line 53 and scales the capacity down so that a full   *)
(* registry is reachable with a handful of connections.                    *)
(***************************************************************************)
MAX_PLAYERS == 2
HEARTBEAT_INTERVAL == 15000
HEARTBEAT_TIMEOUT == 30000

(***************************************************************************)
(* Bounds of the model.                                                    *)
(***************************************************************************)
NumIds == 2         \* distinct strings genId can return
MaxClock == 3       \* clock steps of HEARTBEAT_INTERVAL each
MaxMsgs == 3        \* inbound frames the relay processes in one run
MaxCloseEvents == 2 \* 'close' deliveries per connection under SpecDup

\* handles the transport ever hands over: one more than the registry may hold
Conns == 1..(MAX_PLAYERS + 1)
\* as many handles as the registry may hold
Seats == 1..MAX_PLAYERS
NoConn == 0
Ids == 1..NumIds
TimeStep == HEARTBEAT_INTERVAL

Min(a, b) == IF a <= b THEN a ELSE b

(***************************************************************************)
(* JavaScript values, as far as the handlers look at them.  A value is a   *)
(* record [t, s, n]: t the type tag, s the characters of a string, n the   *)
(* integer of a number / boolean (0,1) / the identity of an object.        *)
(***************************************************************************)
Undef == [t |-> "undefined", s |-> <<>>, n |-> 0]
Null == [t |-> "null", s |-> <<>>, n |-> 0]
NaN == [t |-> "NaN", s |-> <<>>, n |-> 0]
Str(q) == [t |-> "string", s |-> q, n |-> 0]
Num(k) == [t |-> "number", s |-> <<>>, n |-> k]
Bool(b) == [t |-> "boolean", s |-> <<>>, n |-> IF b THEN 1 ELSE 0]
Obj(k) == [t |-> "object", s |-> <<>>, n |-> k]
EmptyObj == Obj(0)

\* ToBoolean: what `v || d` and `!!v` test
Truthy(v) ==
    CASE v.t = "string" -> v.s # <<>>
      [] v.t = "number" -> v.n # 0
      [] v.t = "boolean" -> v.n = 1
      [] v.t = "object" -> TRUE
      [] OTHER -> FALSE

\* v || d
OrElse(v, d) == IF Truthy(v) THEN v ELSE d

Digits == <<"0", "1", "2", "3", "4", "5", "6", "7", "8", "9">>
IsDigit(ch) == \E i \in 1..10 : Digits[i] = ch
DigitVal(ch) == (CHOOSE i \in 1..10 : Digits[i] = ch) - 1

RECURSIVE DecVal(_)
DecVal(q) == IF q = <<>> THEN 0
             ELSE 10 * DecVal(SubSeq(q, 1, Len(q) - 1)) + DigitVal(q[Len(q)])

\* Number(v) for the values above ("" is 0, a digit string its value, any
\* other string NaN; a plain object NaN)
ToNumber(v) ==
    CASE v.t = "number" -> v
      [] v.t = "boolean" -> Num(v.n)
      [] v.t = "null" -> Num(0)
      [] v.t = "string" ->
            IF \A i \in 1..Len(v.s) : IsDigit(v.s[i]) THEN Num(DecVal(v.s)) ELSE NaN
      [] OTHER -> NaN

\* Number(v) || d
NumOr(v, d) == OrElse(ToNumber(v), Num(d))

\* s.slice(0, k) on a string
Slice(q, k) == SubSeq(q, 1, Min(k, Len(q)))
\* s.replace(/[...]/g, '')
Strip(q, bad) == SelectSeq(q, LAMBDA ch : ch \notin bad)

\* (v || dflt).slice(...) is a TypeError unless the operand has a slice method
\* that returns a string: a truthy non-string (number, true, object) throws
SliceThrows(v) == Truthy(v) /\ v.t # "string"

PlayerStr == <<"P", "l", "a", "y", "e", "r">>
NameBad == {"<", ">", "&", "\"", "'"}
ChatBad == {"<", ">", "&"}

\* line 68
SanitizeName(v) == Strip(Slice(OrElse(v, Str(PlayerStr)).s, 16), NameBad)
\* line 113
SanitizeChat(v) == Strip(Slice(OrElse(v, Str(<<>>)).s, 200), ChatBad)
\* line 161
SanitizeItem(v) == Slice(OrElse(v, Str(<<>>)).s, 64)

(***************************************************************************)
(* Inbound frames.  parse is what JSON.parse(raw) does: "throws", "null"   *)
(* (the text null), or "record" (an object; any other primitive or array   *)
(* behaves as an object without the fields below).  type is msg.type, the  *)
(* other fields are the properties the handlers read (Undef when absent).  *)
(***************************************************************************)
Blank == [parse |-> "record", type |-> "none",
          name |-> Undef, text |-> Undef,
          x |-> Undef, z |-> Undef, ry |-> Undef, moving |-> Undef,
          equipment |-> Undef,
          level |-> Undef, combatStyle |-> Undef, hp |-> Undef,
          maxHp |-> Undef, area |-> Undef,
          enemyId |-> Undef, damage |-> Undef, style |-> Undef,
          itemId |-> Undef, quantity |-> Undef]

FThrows == [Blank EXCEPT !.parse = "throws"]
FNull == [Blank EXCEPT !.parse = "null"]
F(ty) == [Blank EXCEPT !.type = ty]

JoinFrames == {[F("join") EXCEPT !.name = v] : v \in {Undef, Num(7)}}
MoveFrames == {[F("move") EXCEPT !.x = Num(5), !.moving = Bool(TRUE)]}
ChatFrames == {[F("chat") EXCEPT !.text = v] : v \in {Str(<<"h", "&">>), Num(7)}}
EquipFrames == {[F("equip") EXCEPT !.equipment = Obj(1)]}
StatsFrames == {[F("stats") EXCEPT !.level = Num(5), !.hp = Num(40)]}
AttackFrames == {[F("attack") EXCEPT !.enemyId = Num(3), !.damage = Num(9)]}
KillFrames == {[F("enemyKill") EXCEPT !.enemyId = Num(3)]}
DropFrames == {[F("groundDrop") EXCEPT !.itemId = v, !.quantity = Num(5000)] :
                 v \in {Str(<<"i">>), Num(7)}}
PongFrames == {F("pong")}
OtherFrames == {F("bogus")}

Frames == {FThrows, FNull} \cup JoinFrames \cup MoveFrames \cup ChatFrames
          \cup EquipFrames \cup StatsFrames \cup AttackFrames \cup KillFrames
          \cup DropFrames \cup PongFrames \cup OtherFrames

(***************************************************************************)
(* State.                                                                  *)
(***************************************************************************)
VARIABLES
    rs,         \* ws.readyState of each handle: "none" (not yet handed over),
                \* "open" (1), "closing" (2), "closed" (3)
    handlers,   \* handles on which lines 62-182 registered the listeners
    recv,       \* handles whose receiver can still emit 'message'
    joined,     \* the closure flag `joined` of each connection
    pData,      \* the closure variable `pData` (NoData is null); the Map's
                \* value for a handle is this same object
    players,    \* the Map `players`: its keys in insertion order
    now,        \* Date.now()
    lastTick,   \* when the heartbeat timer last fired
    crashed,    \* an exception left a callback: the process is gone
    closeEvs,   \* 'close' events delivered per handle
    errored,    \* handles whose 'error' event was delivered
    terminated, \* handles the heartbeat called terminate() on
    nmsg,       \* frames processed so far
    ev,         \* the callback that ran last
    sent,       \* what that callback handed to ws.send, in order
    leaves,     \* history: leave broadcasts issued per handle
    latest,     \* history: state last reported by each connection's own
                \* move / equip / stats messages
    view        \* history: the ids each connection's client has been told
                \* of (welcome roster and join broadcasts, less the leaves)

vars == <<rs, handlers, recv, joined, pData, players, now, lastTick, crashed,
          closeEvs, errored, terminated, nmsg, ev, sent, leaves, latest,
          view>>

NoData == [null |-> TRUE]

StationHub == <<"s", "t", "a", "t", "i", "o", "n", "-", "h", "u", "b">>

DefaultStats == [level |-> Num(1), combatStyle |-> Str(<<"n", "a", "n", "o">>),
                 hp |-> Num(100), maxHp |-> Num(100),
                 area |-> Str(StationHub)]

DefaultView == [x |-> Num(0), z |-> Num(0), ry |-> Num(0), moving |-> FALSE,
                equipment |-> EmptyObj, stats |-> DefaultStats]

Event(kind, c, f) == [kind |-> kind, conn |-> c, frame |-> f]

InReg(c) == \E i \in 1..Len(players) : players[i] = c
Registry == {players[i] : i \in 1..Len(players)}

\* Map.prototype.delete
MapDelete(reg, c) == SelectSeq(reg, LAMBDA k : k # c)
\* Map.prototype.set for a key that may already be present
MapSet(reg, c) == IF \E i \in 1..Len(reg) : reg[i] = c THEN reg ELSE Append(reg, c)

\* broadcast that forgets its exclude argument
broadcastToAll(reg, r, data, exclude) ==
    LET tgt == SelectSeq(reg, LAMBDA k : r[k] = "open")
    IN [i \in 1..Len(tgt) |-> [to |-> tgt[i], msg |-> data]]

\* lines 37-44: the sends of broadcast(data, exclude) over registry reg with
\* ready states r
broadcast(reg, r, data, exclude) ==
    LET tgt == SelectSeq(reg, LAMBDA k : k # exclude /\ r[k] = "open")
    IN [i \in 1..Len(tgt) |-> [to |-> tgt[i], msg |-> data]]

\* lines 46-50
sendTo(r, ws, data) ==
    IF r[ws] = "open" THEN <<[to |-> ws, msg |-> data]>> ELSE <<>>

\* the client of connection d reads message m: a welcome replaces what it
\* knows by the roster, a join adds an id, a leave takes one away
Learn(known, m) ==
    CASE m.type = "welcome" -> {m.players[k].id : k \in 1..Len(m.players)}
      [] m.type = "join" -> known \cup {m.id}
      [] m.type = "leave" -> known \ {m.id}
      [] OTHER -> known

RECURSIVE Told(_, _)
\* the clients read the sends s of one callback in the order they were made
Told(v, s) ==
    IF s = <<>> THEN v
    ELSE Told([v EXCEPT ![s[1].to] = Learn(@, s[1].msg)], Tail(s))

\* what the clients know after a callback that made the sends s and left the
\* ready states r: a client whose connection is no longer open is gone
Views(v, s, r) ==
    [d \in Conns |-> IF r[d] = "open" THEN Told(v, s)[d] ELSE {}]

Init ==
    /\ rs = [c \in Conns |-> "none"]
    /\ handlers = {}
    /\ recv = {}
    /\ joined = [c \in Conns |-> FALSE]
    /\ pData = [c \in Conns |-> NoData]
    /\ players = <<>>
    /\ now = 0
    /\ lastTick = 0
    /\ crashed = FALSE
    /\ closeEvs = [c \in Conns |-> 0]
    /\ errored = {}
    /\ terminated = {}
    /\ nmsg = 0
    /\ ev = Event("start", NoConn, Blank)
    /\ sent = <<>>
    /\ leaves = [c \in Conns |-> 0]
    /\ latest = [c \in Conns |-> DefaultView]
    /\ view = [c \in Conns |-> {}]

(***************************************************************************)
(* wss.on('connection'), lines 52-61.  The transport hands over handles in *)
(* the order 1, 2, ...                                                     *)
(***************************************************************************)
\* the capacity test off by one
FullPastCapacity == Len(players) > MAX_PLAYERS

\* line 53
Full == Len(players) >= MAX_PLAYERS

Connection(c) ==
    /\ ~crashed
    /\ rs[c] = "none"
    /\ \A d \in Conns : d < c => rs[d] # "none"
    /\ ev' = Event("connection", c, Blank)
    /\ IF Full
       THEN /\ sent' = sendTo([rs EXCEPT ![c] = "open"], c,
                              [type |-> "error", msg |-> "Server full"])
            /\ rs' = [rs EXCEPT ![c] = "closing"]
            /\ UNCHANGED <<handlers, recv>>
       ELSE /\ sent' = <<>>
            /\ rs' = [rs EXCEPT ![c] = "open"]
            /\ handlers' = handlers \cup {c}
            /\ recv' = recv \cup {c}
    /\ view' = Views(view, sent', rs')
    /\ UNCHANGED <<joined, pData, players, now, lastTick, crashed, closeEvs,
                   errored, terminated, nmsg, leaves, latest>>

(***************************************************************************)
(* ws.on('message'), lines 62-170.                                         *)
(***************************************************************************)
\* ids some connection's pData carries
UsedIds == {pData[d].id : d \in {k \in Conns : pData[k] # NoData}}

\* lines 33-35: what Math.random().toString(36).slice(2, 10) can return.
\* Nothing compares the result with the ids in use, so it is any of them or
\* a string not drawn before; ids are only ever compared for equality, so
\* the unused strings are interchangeable and the least stands for them all
genId == {id \in Ids : id \in UsedIds \/ \A j \in Ids \ UsedIds : id <= j}

\* an exception leaves the listener: nothing after the throwing expression
\* runs, and nothing catches it
Throw ==
    /\ crashed' = TRUE
    /\ sent' = <<>>
    /\ UNCHANGED <<joined, pData, players, latest>>

\* the frame has no effect
Ignore ==
    /\ sent' = <<>>
    /\ UNCHANGED <<joined, pData, players, crashed, latest>>

\* lines 84-88: one entry of the welcome roster
RosterEntry(op) == [id |-> op.id, name |-> op.name, x |-> op.x, z |-> op.z,
                    ry |-> op.ry, moving |-> op.moving,
                    equipment |-> op.equipment, stats |-> op.stats]

\* the roster loop without its `ows !== ws` test
existingWithSelf(reg, pd, ws) ==
    [i \in 1..Len(reg) |-> RosterEntry(pd[reg[i]])]

\* lines 81-90
existing(reg, pd, ws) ==
    LET others == SelectSeq(reg, LAMBDA k : k # ws)
    IN [i \in 1..Len(others) |-> RosterEntry(pd[others[i]])]

\* lines 67-98
Join(c, f, id) ==
    IF SliceThrows(f.name) THEN Throw
    ELSE
      LET pd == [id |-> id, name |-> SanitizeName(f.name),
                 x |-> Num(0), z |-> Num(0), ry |-> Num(0), moving |-> FALSE,
                 equipment |-> EmptyObj, stats |-> DefaultStats,
                 lastPing |-> now]
          reg == MapSet(players, c)
          npd == [pData EXCEPT ![c] = pd]
      IN /\ pData' = npd
         /\ players' = reg
         /\ joined' = [joined EXCEPT ![c] = TRUE]
         /\ sent' = sendTo(rs, c, [type |-> "welcome", id |-> id,
                                   players |-> existing(reg, npd, c)])
                    \o broadcast(reg, rs, [type |-> "join", id |-> id,
                                           name |-> pd.name], c)
         /\ latest' = [latest EXCEPT ![c] = DefaultView]
         /\ UNCHANGED crashed

\* a move that also overwrites the session's name
MoveRenames(c, f) ==
    LET pd == [pData[c] EXCEPT !.x = NumOr(f.x, 0), !.z = NumOr(f.z, 0),
                               !.ry = NumOr(f.ry, 0),
                               !.moving = Truthy(f.moving),
                               !.name = <<>>]
    IN /\ pData' = [pData EXCEPT ![c] = pd]
       /\ sent' = broadcast(players, rs,
                            [type |-> "move", id |-> pd.id, x |-> pd.x,
                             z |-> pd.z, ry |-> pd.ry, moving |-> pd.moving], c)
       /\ latest' = [latest EXCEPT ![c].x = NumOr(f.x, 0), ![c].z = NumOr(f.z, 0),
                                   ![c].ry = NumOr(f.ry, 0),
                                   ![c].moving = Truthy(f.moving)]
       /\ UNCHANGED <<joined, players, crashed>>

\* lines 103-109
Move(c, f) ==
    LET pd == [pData[c] EXCEPT !.x = NumOr(f.x, 0), !.z = NumOr(f.z, 0),
                               !.ry = NumOr(f.ry, 0),
                               !.moving = Truthy(f.moving)]
    IN /\ pData' = [pData EXCEPT ![c] = pd]
       /\ sent' = broadcast(players, rs,
                            [type |-> "move", id |-> pd.id, x |-> pd.x,
                             z |-> pd.z, ry |-> pd.ry, moving |-> pd.moving], c)
       /\ latest' = [latest EXCEPT ![c].x = NumOr(f.x, 0), ![c].z = NumOr(f.z, 0),
                                   ![c].ry = NumOr(f.ry, 0),
                                   ![c].moving = Truthy(f.moving)]
       /\ UNCHANGED <<joined, players, crashed>>

\* lines 112-118
Chat(c, f) ==
    IF SliceThrows(f.text) THEN Throw
    ELSE LET text == SanitizeChat(f.text)
         IN /\ sent' = IF Len(text) > 0
                       THEN broadcast(players, rs,
                                      [type |-> "chat", id |-> pData[c].id,
                                       name |-> pData[c].name, text |-> text],
                                      NoConn)
                       ELSE <<>>
            /\ UNCHANGED <<joined, pData, players, crashed, latest>>

\* lines 121-124
Equip(c, f) ==
    LET pd == [pData[c] EXCEPT !.equipment = OrElse(f.equipment, EmptyObj)]
    IN /\ pData' = [pData EXCEPT ![c] = pd]
       /\ sent' = broadcast(players, rs,
                            [type |-> "equip", id |-> pd.id,
                             equipment |-> pd.equipment], c)
       /\ latest' = [latest EXCEPT ![c].equipment = OrElse(f.equipment, EmptyObj)]
       /\ UNCHANGED <<joined, players, crashed>>

\* lines 128-134
NewStats(f) ==
    [level |-> NumOr(f.level, 1),
     combatStyle |-> OrElse(f.combatStyle, Str(<<"n", "a", "n", "o">>)),
     hp |-> NumOr(f.hp, 100),
     maxHp |-> NumOr(f.maxHp, 100),
     area |-> OrElse(f.area, Str(StationHub))]

\* lines 127-136
Stats(c, f) ==
    LET pd == [pData[c] EXCEPT !.stats = NewStats(f)]
    IN /\ pData' = [pData EXCEPT ![c] = pd]
       /\ sent' = broadcast(players, rs,
                            [type |-> "stats", id |-> pd.id, stats |-> pd.stats], c)
       /\ latest' = [latest EXCEPT ![c].stats = NewStats(f)]
       /\ UNCHANGED <<joined, players, crashed>>

\* lines 139-146
Attack(c, f) ==
    /\ sent' = broadcast(players, rs,
                         [type |-> "attack", id |-> pData[c].id,
                          name |-> pData[c].name, enemyId |-> f.enemyId,
                          damage |-> NumOr(f.damage, 0),
                          style |-> OrElse(f.style, Str(<<"n", "a", "n", "o">>)),
                          x |-> NumOr(f.x, 0), z |-> NumOr(f.z, 0)], c)
    /\ UNCHANGED <<joined, pData, players, crashed, latest>>

\* lines 149-154
EnemyKill(c, f) ==
    /\ sent' = broadcast(players, rs,
                         [type |-> "enemyKill", id |-> pData[c].id,
                          name |-> pData[c].name, enemyId |-> f.enemyId], c)
    /\ UNCHANGED <<joined, pData, players, crashed, latest>>

\* the quantity relayed as coerced, without Math.min
QuantityRaw(v) == NumOr(v, 1)

\* line 162
Quantity(v) == Num(Min(NumOr(v, 1).n, 1000))

\* lines 157-164
GroundDrop(c, f) ==
    IF SliceThrows(f.itemId) THEN Throw
    ELSE /\ sent' = broadcast(players, rs,
                              [type |-> "groundDrop", id |-> pData[c].id,
                               name |-> pData[c].name,
                               x |-> NumOr(f.x, 0), z |-> NumOr(f.z, 0),
                               itemId |-> SanitizeItem(f.itemId),
                               quantity |-> Quantity(f.quantity)], c)
         /\ UNCHANGED <<joined, pData, players, crashed, latest>>

\* a pong that refreshes every session
PongForAll(c, f) ==
    /\ pData' = [d \in Conns |-> IF pData[d] = NoData THEN pData[d]
                                  ELSE [pData[d] EXCEPT !.lastPing = now]]
    /\ sent' = <<>>
    /\ UNCHANGED <<joined, players, crashed, latest>>

\* lines 167-169
Pong(c, f) ==
    /\ pData' = [pData EXCEPT ![c].lastPing = now]
    /\ sent' = <<>>
    /\ UNCHANGED <<joined, players, crashed, latest>>

\* the listener with a join branch that does not test `joined`
OnMessageRejoin(c, f, id) ==
    IF f.parse = "throws" THEN Ignore
    ELSE IF f.parse = "null" THEN Throw
    ELSE IF f.type = "join" THEN Join(c, f, id)
    ELSE IF ~joined[c] THEN Ignore
    ELSE CASE f.type = "move" -> Move(c, f)
           [] f.type = "chat" -> Chat(c, f)
           [] f.type = "equip" -> Equip(c, f)
           [] f.type = "stats" -> Stats(c, f)
           [] f.type = "attack" -> Attack(c, f)
           [] f.type = "enemyKill" -> EnemyKill(c, f)
           [] f.type = "groundDrop" -> GroundDrop(c, f)
           [] f.type = "pong" -> Pong(c, f)
           [] OTHER -> Ignore

\* lines 62-170: the listener as a whole
OnMessage(c, f, id) ==
    IF f.parse = "throws" THEN Ignore                       \* line 64, catch
    ELSE IF f.parse = "null" THEN Throw                     \* line 67, null.type
    ELSE IF f.type = "join" /\ ~joined[c] THEN Join(c, f, id)
    ELSE IF ~joined[c] THEN Ignore                          \* line 100
    ELSE CASE f.type = "move" -> Move(c, f)
           [] f.type = "chat" -> Chat(c, f)
           [] f.type = "equip" -> Equip(c, f)
           [] f.type = "stats" -> Stats(c, f)
           [] f.type = "attack" -> Attack(c, f)
           [] f.type = "enemyKill" -> EnemyKill(c, f)
           [] f.type = "groundDrop" -> GroundDrop(c, f)
           [] f.type = "pong" -> Pong(c, f)
           [] OTHER -> Ignore

\* the transport emits 'message' on a handle with listeners; id is what genId
\* returns if line 70 calls it (fixed to 1 when it does not)
Message(c, f, id) ==
    /\ ~crashed
    /\ c \in recv
    /\ nmsg < MaxMsgs
    /\ (f.parse = "record" /\ f.type = "join" /\ ~joined[c] /\ ~SliceThrows(f.name))
         \/ id = 1
    /\ nmsg' = nmsg + 1
    /\ ev' = Event("message", c, f)
    /\ OnMessage(c, f, id)
    /\ view' = Views(view, sent', rs)
    /\ UNCHANGED <<rs, handlers, recv, now, lastTick, closeEvs, errored,
                   terminated, leaves>>

(***************************************************************************)
(* Transport events on a handle with listeners, and the listeners of       *)
(* lines 172-182.                                                          *)
(***************************************************************************)
\* the closing handshake starts (the peer's close frame arrived): readyState
\* is CLOSING until 'close' is emitted, and no further frame is read
PeerClosing(c) ==
    /\ ~crashed
    /\ c \in handlers
    /\ rs[c] = "open"
    /\ rs' = [rs EXCEPT ![c] = "closing"]
    /\ recv' = recv \ {c}
    /\ ev' = Event("closing", c, Blank)
    /\ sent' = <<>>
    /\ view' = Views(view, sent', rs')
    /\ UNCHANGED <<handlers, joined, pData, players, now, lastTick, crashed,
                   closeEvs, errored, terminated, nmsg, leaves, latest>>

\* lines 172-178, run with ready states r
OnClose(c, r) ==
    /\ IF pData[c] # NoData
       THEN /\ sent' = broadcast(players, r,
                                 [type |-> "leave", id |-> pData[c].id], NoConn)
            /\ leaves' = [leaves EXCEPT ![c] = @ + 1]
       ELSE /\ sent' = <<>>
            /\ UNCHANGED leaves
    /\ players' = MapDelete(players, c)

\* 'close' is emitted once per handle, with readyState already CLOSED
CloseEvent(c) ==
    /\ ~crashed
    /\ c \in handlers
    /\ rs[c] \in {"open", "closing"}
    /\ closeEvs[c] = 0
    /\ rs' = [rs EXCEPT ![c] = "closed"]
    /\ recv' = recv \ {c}
    /\ closeEvs' = [closeEvs EXCEPT ![c] = 1]
    /\ ev' = Event("close", c, Blank)
    /\ OnClose(c, rs')
    /\ view' = Views(view, sent', rs')
    /\ UNCHANGED <<handlers, joined, pData, now, lastTick, crashed, errored,
                   terminated, nmsg, latest>>

\* lines 180-182; 'error' is emitted at most once per handle, before 'close',
\* and leaves the handle CLOSING
ErrorEvent(c) ==
    /\ ~crashed
    /\ c \in handlers
    /\ rs[c] \in {"open", "closing"}
    /\ c \notin errored
    /\ rs' = [rs EXCEPT ![c] = "closing"]
    /\ recv' = recv \ {c}
    /\ errored' = errored \cup {c}
    /\ ev' = Event("error", c, Blank)
    /\ sent' = <<>>
    /\ players' = MapDelete(players, c)
    /\ view' = Views(view, sent', rs')
    /\ UNCHANGED <<handlers, joined, pData, now, lastTick, crashed, closeEvs,
                   terminated, nmsg, leaves, latest>>

\* the close listener invoked again on a handle already closed (a transport
\* that reports the same teardown twice)
DupClose(c) ==
    /\ ~crashed
    /\ c \in handlers
    /\ rs[c] = "closed"
    /\ closeEvs[c] >= 1
    /\ closeEvs[c] < MaxCloseEvents
    /\ closeEvs' = [closeEvs EXCEPT ![c] = @ + 1]
    /\ ev' = Event("close", c, Blank)
    /\ OnClose(c, rs)
    /\ view' = Views(view, sent', rs)
    /\ UNCHANGED <<rs, handlers, recv, joined, pData, now, lastTick, crashed,
                   errored, terminated, nmsg, latest>>

(***************************************************************************)
(* Heartbeat, lines 186-197, and the clock.                                *)
(***************************************************************************)
\* the subtraction of line 189 with its operands swapped
ExpiredSwapped(c, t) == pData[c].lastPing - t > HEARTBEAT_TIMEOUT

\* the comparison of line 189 made non-strict
ExpiredAtTimeout(c, t) == t - pData[c].lastPing >= HEARTBEAT_TIMEOUT

\* a timeout of one heartbeat period instead of two
ExpiredAfterOnePeriod(c, t) == t - pData[c].lastPing >= HEARTBEAT_INTERVAL

\* line 189
Expired(c, t) == t - pData[c].lastPing > HEARTBEAT_TIMEOUT

\* one run of the timer callback over the whole Map; terminate() leaves the
\* handle CLOSING with its 'close' event still to come
Tick ==
    /\ ~crashed
    /\ now - lastTick >= HEARTBEAT_INTERVAL
    /\ lastTick' = now
    /\ LET gone == {c \in Registry : Expired(c, now)}
           kept == SelectSeq(players, LAMBDA k : ~Expired(k, now))
       IN /\ players' = kept
          /\ rs' = [c \in Conns |-> IF c \in gone THEN "closing" ELSE rs[c]]
          /\ terminated' = terminated \cup gone
          /\ sent' = broadcast(kept, rs, [type |-> "ping"], NoConn)
    /\ ev' = Event("tick", NoConn, Blank)
    /\ view' = Views(view, sent', rs')
    /\ UNCHANGED <<handlers, recv, joined, pData, now, crashed, closeEvs,
                   errored, nmsg, leaves, latest>>

\* time passes between callbacks, one heartbeat period at a time; the timer
\* callback that has become due runs before the next period is over
AdvanceTime ==
    /\ ~crashed
    /\ now < MaxClock * TimeStep
    /\ now - lastTick < HEARTBEAT_INTERVAL
    /\ now' = now + TimeStep
    /\ UNCHANGED <<rs, handlers, recv, joined, pData, players, lastTick,
                   crashed, closeEvs, errored, terminated, nmsg, ev, sent,
                   leaves, latest, view>>

(***************************************************************************)
(* Specifications.                                                         *)
(***************************************************************************)
\* one frame per kind the lifecycle depends on, and the text null
CoreFrames == {FNull, [F("join") EXCEPT !.name = Undef], F("pong")}

\* the whole relay, serving as many connections as it has seats: every
\* callback, every frame of Frames, and the clock
Next ==
    \/ \E c \in Seats : Connection(c)
    \/ \E c \in Seats, f \in Frames, id \in genId : Message(c, f, id)
    \/ \E c \in Seats : PeerClosing(c)
    \/ \E c \in Seats : CloseEvent(c)
    \/ \E c \in Seats : ErrorEvent(c)
    \/ Tick
    \/ AdvanceTime

Spec == Init /\ [][Next]_vars

\* the relay offered one connection more than it has seats, between two
\* heartbeats
NextCap ==
    \/ \E c \in Conns : Connection(c)
    \/ \E c \in Conns, f \in CoreFrames, id \in genId : Message(c, f, id)
    \/ \E c \in Conns : PeerClosing(c)
    \/ \E c \in Conns : CloseEvent(c)
    \/ \E c \in Conns : ErrorEvent(c)

SpecCap == Init /\ [][NextCap]_vars

\* the same, with every frame of Frames
NextRelay ==
    \/ \E c \in Conns : Connection(c)
    \/ \E c \in Conns, f \in Frames, id \in genId : Message(c, f, id)
    \/ \E c \in Conns : PeerClosing(c)
    \/ \E c \in Conns : CloseEvent(c)
    \/ \E c \in Conns : ErrorEvent(c)

SpecRelay == Init /\ [][NextRelay]_vars

\* n copies of ch
Rep(ch, n) == [i \in 1..n |-> ch]
\* the strings over alphabet abc of length at most 2
Short(abc) == {<<>>} \cup {<<a>> : a \in abc} \cup {<<a, b>> : a \in abc, b \in abc}

\* msg.name of a join: absent, a non-string, short strings with and without
\* characters of NameBad, and strings around the cut of slice(0, 16)
NameInputs ==
    {Undef, Num(7)}
    \cup {Str(q) : q \in Short({"a", "<", "'"})}
    \cup {Str(Rep("a", 16)), Str(Rep("a", 17)),
          Str(Rep("a", 15) \o <<"<", "b">>), Str(Rep("&", 17))}

\* msg.text of a chat: the same around the cut of slice(0, 200)
TextInputs ==
    {Undef, Num(7)}
    \cup {Str(q) : q \in Short({"h", "&"})}
    \cup {Str(Rep("h", 200)), Str(Rep("h", 201)),
          Str(Rep("h", 199) \o <<"<", "b">>)}

SanFrames == {[F("join") EXCEPT !.name = v] : v \in NameInputs}
             \cup {[F("chat") EXCEPT !.text = v] : v \in TextInputs}

\* one connection sending joins and chats with the names and texts above
NextSan ==
    \/ Connection(1)
    \/ \E f \in SanFrames, id \in genId : Message(1, f, id)

SpecSan == Init /\ [][NextSan]_vars

\* msg.quantity of a groundDrop: absent, zero, negative, at and around the
\* limit, far above it, numeric and non-numeric strings
QuantityInputs ==
    {Undef, Num(0), Num(-5), Num(7), Num(1000), Num(1001), Num(5000),
     Str(<<"5", "0", "0", "0">>), Str(<<"x">>)}

\* msg.level of a stats: absent, zero, negative, positive, numeric and
\* non-numeric strings
LevelInputs ==
    {Undef, Num(0), Num(-3), Num(5), Str(<<"7">>), Str(<<"x">>)}

FieldFrames ==
    {[F("join") EXCEPT !.name = Undef]}
    \cup {[F("groundDrop") EXCEPT !.itemId = Str(<<"i">>), !.quantity = v] :
            v \in QuantityInputs}
    \cup {[F("stats") EXCEPT !.level = v] : v \in LevelInputs}
    \cup StatsFrames

\* as many connections as seats, sending joins, groundDrops and stats with
\* the quantities and levels above
NextFields ==
    \/ \E c \in Seats : Connection(c)
    \/ \E c \in Seats, f \in FieldFrames, id \in genId : Message(c, f, id)

SpecFields == Init /\ [][NextFields]_vars

\* the relay on a transport that may report a teardown more than once
NextDup ==
    \/ \E c \in Seats : Connection(c)
    \/ \E c \in Seats, f \in CoreFrames, id \in genId : Message(c, f, id)
    \/ \E c \in Seats : PeerClosing(c)
    \/ \E c \in Seats : CloseEvent(c)
    \/ \E c \in Seats : ErrorEvent(c)
    \/ \E c \in Seats : DupClose(c)
    \/ Tick
    \/ AdvanceTime

SpecDup == Init /\ [][NextDup]_vars

\* the whole relay with the frames of CoreFrames
NextLive ==
    \/ \E c \in Seats : Connection(c)
    \/ \E c \in Seats, f \in CoreFrames, id \in genId : Message(c, f, id)
    \/ \E c \in Seats : PeerClosing(c)
    \/ \E c \in Seats : CloseEvent(c)
    \/ \E c \in Seats : ErrorEvent(c)
    \/ Tick
    \/ AdvanceTime

\* the event loop runs every callback that is due: the heartbeat timer keeps
\* firing, and a handle being torn down (CLOSING) gets its 'close' event; an
\* open connection may stay open for ever
LiveSpec ==
    /\ Init /\ [][NextLive]_vars
    /\ WF_vars(Tick)
    /\ WF_vars(AdvanceTime)
    /\ \A c \in Seats : WF_vars(rs[c] = "closing" /\ CloseEvent(c))

(***************************************************************************)
(* Properties.                                                             *)
(***************************************************************************)
LeaveMsg(c) == [type |-> "leave", id |-> pData[c].id]
Got(d, m) == \E i \in 1..Len(sent) : sent[i] = [to |-> d, msg |-> m]
GotTimes(d, m) == Cardinality({i \in 1..Len(sent) : sent[i] = [to |-> d, msg |-> m]})
OpenSessions == {d \in Registry : rs[d] = "open"}

\* C1: in every reachable state the registry holds at most MAX_PLAYERS
\* sessions.
C1_RegistryWithinCapacity == Len(players) <= MAX_PLAYERS

\* C2: in every reachable state no two sessions of the registry have the
\* same id, whatever genId returned at each join.
C2_LiveIdsUnique ==
    \A c, d \in Registry : c # d => pData[c].id # pData[d].id

\* C3: no inbound frame terminates the relay: the message listener never
\* lets an exception escape.
C3_NoFrameStopsRelay == ~crashed

TimedOut(c) == InReg(c) /\ now - pData[c].lastPing > HEARTBEAT_TIMEOUT

\* C4: a registered session whose last pong is older than the heartbeat
\* timeout and that stays silent is, while the timer keeps firing, removed
\* from the registry: the state "registered and timed out" always ends, by
\* removal unless a pong of the session is processed first, and no tick
\* leaves a timed-out entry behind.  A session the heartbeat evicted gets its
\* leave broadcast, never more than one, and that broadcast reaches every
\* session then in the registry with an open connection, once each.
C4_SilentSessionEvictedWithOneLeave ==
    /\ \A c \in Seats : TimedOut(c) ~> (~TimedOut(c) \/ crashed)
    /\ [][lastTick' # lastTick =>
            \A c \in Seats : TimedOut(c) => ~InReg(c)' /\ c \in terminated']_vars
    /\ \A c \in Seats : (c \in terminated) ~> (leaves[c] = 1 \/ crashed)
    /\ [](\A c \in terminated : leaves[c] <= 1)
    /\ [](ev.kind = "close" /\ ev.conn \in terminated
            => \A d \in OpenSessions : GotTimes(d, LeaveMsg(ev.conn)) = 1)

\* an evicted session's close event has just told the remaining session
C4_Witness ==
    /\ ev.kind = "close"
    /\ ev.conn \in terminated
    /\ leaves[ev.conn] = 1
    /\ \E d \in OpenSessions : Got(d, LeaveMsg(ev.conn))

CloseStep(c) == closeEvs'[c] = closeEvs[c] + 1
ErrorStep(c) == c \notin errored /\ c \in errored'

\* C5: a close event and an error event on a registered session's connection
\* are handled alike: the step that handles it broadcasts leave with the
\* session's id to every other registered session with an open connection
\* and removes the entry.
C5_CloseOrErrorBroadcastsLeave ==
    [][\A c \in Conns :
         (CloseStep(c) \/ ErrorStep(c)) /\ InReg(c)
           => /\ \A d \in OpenSessions \ {c} :
                   \E i \in 1..Len(sent') :
                       sent'[i] = [to |-> d, msg |-> LeaveMsg(c)]
              /\ c \notin Registry']_vars

NoEcho == {"join", "move", "equip", "stats", "attack", "enemyKill",
           "groundDrop", "leave"}

\* C7: a chat with non-empty sanitized text from a Joined session reaches
\* every registered session with an open connection, the sender included; no
\* join, move, equip, stats, attack, enemyKill, groundDrop or leave broadcast
\* is sent to the connection whose event caused it.
C7_OnlyChatEchoes ==
    /\ \A i \in 1..Len(sent) :
          sent[i].msg.type \in NoEcho => sent[i].to # ev.conn
    /\ (/\ ev.kind = "message" /\ ev.frame.parse = "record"
        /\ ev.frame.type = "chat" /\ joined[ev.conn] /\ ~crashed
        /\ Len(SanitizeChat(ev.frame.text)) > 0)
         => \A d \in OpenSessions :
               Cardinality({i \in 1..Len(sent) :
                              /\ sent[i].to = d
                              /\ sent[i].msg.type = "chat"
                              /\ sent[i].msg.id = pData[ev.conn].id}) = 1

\* the sender of a chat, one of two open sessions, got its own chat back
C7_Witness ==
    /\ ev.kind = "message" /\ ev.frame.type = "chat"
    /\ Cardinality(OpenSessions) = 2
    /\ \E i \in 1..Len(sent) : sent[i].to = ev.conn /\ sent[i].msg.type = "chat"

\* what a roster must say about session c: its id and name, and the state
\* its own messages last reported
Expected(c) == [id |-> pData[c].id, name |-> pData[c].name,
                x |-> latest[c].x, z |-> latest[c].z, ry |-> latest[c].ry,
                moving |-> latest[c].moving,
                equipment |-> latest[c].equipment, stats |-> latest[c].stats]

\* C8: the welcome of a join goes to the joiner and lists exactly the other
\* sessions of the registry, one entry each, with the position, moving flag,
\* equipment and stats their own messages last set.
C8_WelcomeListsTheOthers ==
    \A i \in 1..Len(sent) :
        sent[i].msg.type = "welcome" =>
            LET roster == sent[i].msg.players
                others == Registry \ {sent[i].to}
            IN /\ sent[i].to = ev.conn
               /\ InReg(sent[i].to)
               /\ Len(roster) = Cardinality(others)
               /\ \A c \in others :
                     Cardinality({k \in 1..Len(roster) : roster[k] = Expected(c)})
                       = Cardinality({d \in others : Expected(d) = Expected(c)})

\* a welcome that lists a session at the position its move reported
C8_Witness ==
    \E i \in 1..Len(sent) :
        /\ sent[i].msg.type = "welcome"
        /\ Len(sent[i].msg.players) = 1
        /\ sent[i].msg.players[1].x = Num(5)

Rejected(c) == rs[c] # "none" /\ c \notin handlers
ErrorMsg == [type |-> "error", msg |-> "Server full"]

\* C9: a connection handed over while the registry holds MAX_PLAYERS
\* sessions or more is sent error and closed, gets no listeners, never joins
\* and never enters the registry; error is sent to nobody else and at no
\* other time.
C9_FullRegistryRejects ==
    /\ [](\A c \in Conns : Rejected(c) =>
             /\ ~InReg(c) /\ ~joined[c] /\ pData[c] = NoData
             /\ c \notin recv
             /\ rs[c] \in {"closing", "closed"})
    /\ [](\A i \in 1..Len(sent) : sent[i].msg.type = "error" =>
             /\ ev.kind = "connection"
             /\ sent[i].to = ev.conn
             /\ Rejected(ev.conn))
    /\ [][\A c \in Conns :
            /\ rs[c] = "none" /\ rs'[c] # "none"
                 => /\ Len(players) >= MAX_PLAYERS <=> Rejected(c)'
                    /\ Rejected(c)' => sent' = <<[to |-> c, msg |-> ErrorMsg]>>
            /\ Rejected(c) => Rejected(c)']_vars

\* the connection that found the registry full got the error
C9_Witness ==
    /\ ev.kind = "connection"
    /\ Rejected(ev.conn)
    /\ Len(players) = MAX_PLAYERS
    /\ Got(ev.conn, ErrorMsg)

\* C10: the processing of a message from connection c leaves every other
\* connection's session record, joined flag and registry membership as they
\* were.
C10_MessageTouchesOnlyItsSender ==
    [][nmsg' # nmsg =>
         \A d \in Conns \ {ev'.conn} :
             /\ pData'[d] = pData[d]
             /\ joined'[d] = joined[d]
             /\ (d \in Registry') <=> (d \in Registry)]_vars

\* a pong was processed, at a later time than its sender's and another
\* session's join
C10_Witness ==
    /\ ev.kind = "message" /\ ev.frame.type = "pong"
    /\ InReg(ev.conn)
    /\ pData[ev.conn].lastPing > 0
    /\ \E d \in Registry : d # ev.conn /\ pData[d].lastPing = 0

MessageStep == nmsg' # nmsg

\* C11: every registry entry belongs to a connection that has listeners and
\* has completed a join (a Pending or rejected connection is never in the
\* registry), and once a connection's session record exists its id and name
\* are the same after every step, whatever message or event the step handles.
C11_EntriesJoinedIdAndNameFixed ==
    /\ [](\A c \in Registry :
             joined[c] /\ pData[c] # NoData /\ c \in handlers)
    /\ [](\A c \in Conns : ~joined[c] => pData[c] = NoData /\ ~InReg(c))
    /\ [][\A c \in Conns : pData[c] # NoData =>
             /\ pData'[c] # NoData
             /\ pData'[c].id = pData[c].id
             /\ pData'[c].name = pData[c].name]_vars

\* a session's move has been processed while another connection is Pending
C11_Witness ==
    /\ ev.kind = "message" /\ ev.frame.type = "move"
    /\ InReg(ev.conn)
    /\ pData[ev.conn].x = Num(5)
    /\ pData[ev.conn].name = PlayerStr
    /\ \E d \in Conns : rs[d] = "open" /\ ~joined[d]

\* C12: a join frame processed on a connection that is already Joined changes
\* no session record, no joined flag and not the registry, sends nothing to
\* anyone and does not stop the relay.
C12_SecondJoinIsNoOp ==
    [][\A c \in Conns :
         (/\ MessageStep /\ ev'.conn = c /\ joined[c]
          /\ ev'.frame.parse = "record" /\ ev'.frame.type = "join")
           => /\ pData' = pData /\ players' = players /\ joined' = joined
              /\ sent' = <<>> /\ ~crashed']_vars

\* a join frame was processed on a registered session's open connection, with
\* another session there to be told, and nothing was sent
C12_Witness ==
    /\ ev.kind = "message" /\ ev.frame.type = "join"
    /\ joined[ev.conn] /\ InReg(ev.conn) /\ rs[ev.conn] = "open"
    /\ \E d \in OpenSessions : d # ev.conn
    /\ sent = <<>> /\ ~crashed

HandledTypes == {"join", "move", "chat", "equip", "stats", "attack",
                 "enemyKill", "groundDrop", "pong"}

\* frame f from connection c is one the router is to drop: it does not decode
\* to a record, or its type is none of the handled ones, or c is Pending and
\* the type is not join
Dropped(c, f) ==
    \/ f.parse # "record"
    \/ f.type \notin HandledTypes
    \/ ~joined[c] /\ f.type # "join"

\* C13: processing a dropped frame changes no session record and not the
\* registry, sends nothing, leaves the sender's connection and its lifecycle
\* state as they were, and the relay keeps running.
C13_DroppedFrameHasNoEffect ==
    [][MessageStep /\ Dropped(ev'.conn, ev'.frame)
         => /\ pData' = pData /\ players' = players /\ joined' = joined
            /\ sent' = <<>> /\ rs' = rs /\ recv' = recv
            /\ ~crashed']_vars

NoneOf(q, bad) == \A i \in 1..Len(q) : q[i] \notin bad

\* C14: the name a join stores and the text a chat relays are the sanitizer's
\* result for the field sent; sanitizing that result again gives it back; it
\* holds none of the stripped characters and is no longer than 16 (name) or
\* 200 (text); and the sanitizer has a result for every field value, so that
\* no join and no chat stops the relay.
C14_SanitizersIdempotentAndTotal ==
    /\ (ev.kind = "message" /\ ev.frame.type \in {"join", "chat"}) => ~crashed
    /\ \A i \in 1..Len(sent) :
          /\ sent[i].msg.type = "welcome" =>
                LET name == pData[sent[i].to].name
                IN /\ name = SanitizeName(ev.frame.name)
                   /\ SanitizeName(Str(name)) = name
                   /\ NoneOf(name, NameBad)
                   /\ Len(name) <= 16
          /\ sent[i].msg.type = "chat" =>
                LET text == sent[i].msg.text
                IN /\ text = SanitizeChat(ev.frame.text)
                   /\ SanitizeChat(Str(text)) = text
                   /\ NoneOf(text, ChatBad)
                   /\ Len(text) <= 200

\* C15: a groundDrop from a Joined session is relayed to every other
\* registered session with an open connection, and the quantity relayed is a
\* number of at most 1000: exactly 1000 when the quantity asked for is a
\* number above 1000, and never that number itself.
C15_QuantityAtMostThousand ==
    /\ \A i \in 1..Len(sent) : sent[i].msg.type = "groundDrop" =>
          LET q == sent[i].msg.quantity
              asked == ToNumber(ev.frame.quantity)
          IN /\ q.t = "number" /\ q.n <= 1000
             /\ (asked.t = "number" /\ asked.n > 1000) =>
                   q = Num(1000) /\ q # asked
             /\ (asked.t = "number" /\ asked.n <= 1000 /\ asked.n # 0) =>
                   q = asked
    /\ (/\ ev.kind = "message" /\ ev.frame.parse = "record"
        /\ ev.frame.type = "groundDrop" /\ joined[ev.conn] /\ ~crashed)
         => \A d \in OpenSessions \ {ev.conn} :
               \E i \in 1..Len(sent) :
                   sent[i].to = d /\ sent[i].msg.type = "groundDrop"

\* a groundDrop asking for 5000 was relayed with quantity 1000
C15_Witness ==
    /\ ev.kind = "message" /\ ev.frame.type = "groundDrop"
    /\ ev.frame.quantity = Num(5000)
    /\ \E i \in 1..Len(sent) :
          sent[i].msg.type = "groundDrop" /\ sent[i].msg.quantity = Num(1000)

\* C16: the level of every session's stats record is a number that is at
\* least 1, whatever the stats messages carried, and after a stats message
\* every field of the sender's stats record is the message's coerced value
\* or the default, none is left from the record before.
C16_LevelAtLeastOne ==
    /\ \A c \in Conns : pData[c] # NoData =>
          pData[c].stats.level.t = "number" /\ pData[c].stats.level.n >= 1
    /\ (/\ ev.kind = "message" /\ ev.frame.parse = "record"
        /\ ev.frame.type = "stats" /\ joined[ev.conn])
         => pData[ev.conn].stats = NewStats(ev.frame)

TickStep == lastTick' # lastTick
PingMsg == [type |-> "ping"]

\* C17: a heartbeat tick removes from the registry exactly the entries whose
\* lastPing lies more than HEARTBEAT_TIMEOUT before the tick and terminates
\* their connections, touches no other connection, and sends one ping to
\* every remaining entry whose connection is open and nothing else; it
\* changes no session record.  A session's lastPing is the time of its join
\* and afterwards changes only when a pong of its own connection is
\* processed, to the time of that processing.
C17_TickPartitionsRegistry ==
    /\ [][TickStep =>
            LET gone == {c \in Registry :
                           now - pData[c].lastPing > HEARTBEAT_TIMEOUT}
                pinged == {c \in Registry \ gone : rs[c] = "open"}
            IN /\ Registry' = Registry \ gone
               /\ terminated' = terminated \cup gone
               /\ \A c \in gone : rs'[c] # "open"
               /\ \A c \in Conns \ gone : rs'[c] = rs[c]
               /\ \A c \in pinged :
                     Cardinality({i \in 1..Len(sent') :
                                    sent'[i] = [to |-> c, msg |-> PingMsg]}) = 1
               /\ Len(sent') = Cardinality(pinged)
               /\ pData' = pData]_vars
    /\ [][\A c \in Conns :
            /\ (pData[c] = NoData /\ pData'[c] # NoData)
                  => pData'[c].lastPing = now
            /\ (pData[c] # NoData /\ pData'[c].lastPing # pData[c].lastPing)
                  => /\ MessageStep /\ ev'.conn = c
                     /\ ev'.frame.type = "pong"
                     /\ pData'[c].lastPing = now]_vars

\* a tick evicted one session and pinged another whose lastPing lay exactly
\* HEARTBEAT_TIMEOUT back
C17_Witness ==
    /\ ev.kind = "tick"
    /\ \E c \in terminated : rs[c] = "closing" /\ ~InReg(c) /\ now = lastTick
                              /\ now - pData[c].lastPing > HEARTBEAT_TIMEOUT
    /\ \E d \in Registry : /\ now - pData[d].lastPing = HEARTBEAT_TIMEOUT
                           /\ Got(d, PingMsg)

\* C20: a heartbeat tick neither removes nor terminates a session whose
\* lastPing is not older than the tick before, that is a session that joined
\* or had a pong processed since the tick before (the pong for that tick's
\* ping included).
C20_ResponsiveSessionKept ==
    [][TickStep =>
         \A c \in Registry : pData[c].lastPing >= lastTick
            => InReg(c)' /\ c \notin terminated' /\ rs'[c] = rs[c]]_vars

\* at the tick that evicted a silent session, a session whose pong was
\* processed after the tick before was kept and pinged
C20_Witness ==
    /\ ev.kind = "tick" /\ now = lastTick
    /\ \E c \in terminated : ~InReg(c) /\ pData[c].lastPing = 0
    /\ \E d \in Registry : /\ pData[d].lastPing > HEARTBEAT_INTERVAL
                           /\ pData[d].lastPing < now
                           /\ Got(d, PingMsg)

\* no callback is due: no handle with listeners is between its teardown and
\* its 'close' event, the heartbeat timer is not overdue, the relay runs
Quiescent ==
    /\ ~crashed
    /\ \A c \in handlers : rs[c] # "closing"
    /\ now - lastTick < HEARTBEAT_INTERVAL

OtherIds(d) == {pData[c].id : c \in Registry \ {d}}

\* C18: in every quiescent state, the ids the client of a Joined open
\* connection has been told of (its welcome roster and the joins after it,
\* less the leaves) are exactly the ids of the registry's other sessions.
C18_RosterViewsConverge ==
    Quiescent =>
        \A d \in Conns : (joined[d] /\ rs[d] = "open") => view[d] = OtherIds(d)

AboutTypes == {"leave", "move", "chat", "equip", "stats", "attack",
               "enemyKill", "groundDrop"}

\* C19: every leave, move, chat, equip, stats, attack, enemyKill or groundDrop
\* a callback sends to a Joined client carries the client's own id or an id
\* the client had been told of by its welcome or a join and not since by a
\* leave.
C19_NoMessageAboutUnknownSession ==
    [][now' = now =>
         \A i \in 1..Len(sent') :
             LET m == sent'[i].msg
                 d == sent'[i].to
             IN (m.type \in AboutTypes /\ joined[d])
                   => m.id = pData[d].id \/ m.id \in view[d]]_vars

====
